---------------------------- MODULE Spec2Model ----------------------------
(***************************************************************************)
(* Model of pdfOCR2md.py: the page-sequential PDF -> Markdown conversion   *)
(* pipeline (validate_inputs, get_output_path, process_model_response,     *)
(* metadata_comment, pdf_to_markdown and the __main__ block), and of       *)
(* query.py (query_model, save_result, main).                              *)
(*                                                                         *)
(* Texts and paths are sequences of tokens.  A token is one character      *)
(* (" ", "\t", "\n", "\r", "a", "/") or a run of characters that the       *)
(* program only ever treats as a unit: the fence FENCE (three backticks),  *)
(* the fence tags, the tag openers "<tr" "<td" "<th", the rest "ead>" of a *)
(* <thead> tag after its "<th", the page marker comment, the extensions    *)
(* ".pdf" ".md" "_converted.md".  None of these units overlaps itself or   *)
(* another one, so matching a regular expression or str.replace on tokens  *)
(* is matching it on the characters.                                       *)
(***************************************************************************)
EXTENDS Naturals, Sequences, FiniteSets, TLC

VARIABLES
    raw,            \* normalizer: the model's completion text
    page,           \* normalizer: the 0-based page_num it is called with
    fragment,       \* normalizer: process_model_response's value
    refragment,     \* normalizer: the value when applied to `fragment`
    npc,            \* normalizer: "input" | "normalized" | "renormalized"
    pdf_path,       \* sys.argv[1]
    pdf_readable,   \* whether convert_from_path can rasterize the input
    pdf_pages,      \* the number of pages of the input
    fs,             \* the files: path -> content
    fs0,            \* history: the files before the first run
    api_key,        \* whether OPENAI_API_KEY is set
    clock,          \* datetime.datetime.now(), in seconds
    run,            \* the number of runs of the program started so far
    pc,             \* where the current run is: "idle" between runs
    status,         \* how the last run ended or "running"
    driver,         \* the loop of pdf_to_markdown: "Idle" | "Converting" | "Done"
    images,         \* len(images)
    page_num,       \* the loop variable of pdf_to_markdown
    markdown_pieces,
    previous_page_markdown,
    result,         \* the value pdf_to_markdown returns
    attempts,       \* history: per page of the current run, the request and its outcome
    artifacts,      \* history: the output files written, one record per run that wrote
    q_files,        \* query.py: the result files: path -> record
    q_today,        \* query.py: date.today(), in days
    q_run,          \* query.py: the number of runs of main started so far
    q_pc,           \* query.py: "idle" between runs, "loop" in the loop over the models
    q_status,       \* query.py: how the last run of main ended or "running"
    q_models,       \* query.py: models, the list the loop goes through
    q_index,        \* query.py: the position of the loop in models
    q_queried,      \* query.py history: the model ids query_model was called with, this run
    q_saved         \* query.py history: the path and record of every save_result call

nvars == <<raw, page, fragment, refragment, npc>>
dvars == <<pdf_path, pdf_readable, pdf_pages, fs, fs0, api_key, clock, run, pc, status,
           driver, images, page_num, markdown_pieces, previous_page_markdown,
           result, attempts, artifacts>>
qvars == <<q_files, q_today, q_run, q_pc, q_status, q_models, q_index, q_queried,
           q_saved>>
vars == <<nvars, dvars, qvars>>

---------------------------------------------------------------------------
(* Bounds of the model *)

\* longest raw completion text (in tokens) the normalizer is checked on
MaxLen == 4

\* page_num values the normalizer is checked with: 0 .. MaxPageNum
MaxPageNum == 1

\* most pages of an input PDF
MaxPages == 3

\* most runs of the program on the input
MaxRuns == 2

---------------------------------------------------------------------------
(* Tokens *)

\* three backticks, the fenced-code-block marker of the two fence regexes
FENCE == "FENCE"

\* [ \t] of the fence regexes
Blank == {" ", "\t"}

\* \s of the table regexes and the characters str.rstrip() strips
Whitespace == {" ", "\t", "\n", "\r"}

\* the line boundaries of str.splitlines() (a "\r" "\n" pair is one boundary)
LineBreak == {"\n", "\r"}

\* the tokens raw completions are built from
Alphabet == {"a", " ", "\n", "\r", FENCE, "markdown", "<tr", "<td", "<th", "ead>"}

RECURSIVE SeqsUpTo(_, _)
SeqsUpTo(S, n) ==
    IF n = 0 THEN {<<>>}
    ELSE LET shorter == SeqsUpTo(S, n - 1) IN
         shorter \cup {Append(s, c) : s \in {t \in shorter : Len(t) = n - 1}, c \in S}

\* the first position at or after k that does not hold a token of `set`
\* (Len(s) + 1 when there is none): where a greedy [set]* started at k ends
SkipWhile(s, k, set) ==
    CHOOSE j \in k..(Len(s) + 1) :
        /\ \A i \in k..(j - 1) : s[i] \in set
        /\ j = Len(s) + 1 \/ s[j] \notin set

---------------------------------------------------------------------------
(* process_model_response *)

\* re.sub(r"^```(?:markdown|html)?[ \t]*\n", "", text): without re.MULTILINE
\* ^ matches at the start of the text only
StripOpener(s) ==
    IF Len(s) >= 1 /\ s[1] = FENCE
    THEN LET tagged == Len(s) >= 2 /\ s[2] \in {"markdown", "html"}
             \* end of the match with the optional group taken, then without
             jt == IF tagged THEN SkipWhile(s, 3, Blank) ELSE 0
             ju == SkipWhile(s, 2, Blank)
         IN  IF tagged /\ jt <= Len(s) /\ s[jt] = "\n"
             THEN SubSeq(s, jt + 1, Len(s))
             ELSE IF ju <= Len(s) /\ s[ju] = "\n"
             THEN SubSeq(s, ju + 1, Len(s))
             ELSE s
    ELSE s

\* re.sub(r"\n```[ \t]*$", "", text): without re.MULTILINE $ matches at the
\* end of the text and just before a newline that ends the text
CloserMatches(s) ==
    {i \in 1..Len(s) :
        /\ s[i] = "\n"
        /\ i + 1 <= Len(s)
        /\ s[i + 1] = FENCE
        /\ LET j == SkipWhile(s, i + 2, Blank) IN
           \/ j = Len(s) + 1
           \/ j = Len(s) /\ s[j] = "\n"}

StripCloser(s) ==
    IF CloserMatches(s) = {} THEN s
    ELSE LET i == CHOOSE m \in CloserMatches(s) : \A o \in CloserMatches(s) : m <= o
             j == SkipWhile(s, i + 2, Blank)
         IN  SubSeq(s, 1, i - 1) \o SubSeq(s, j, Len(s))

\* re.sub(r"^(\s*)<tag", indent + "<tag", text, flags=re.MULTILINE) from
\* position p on: ^ matches at the start of the text and after each "\n";
\* \s* is greedy and also takes line breaks
RECURSIVE ReSubIndent(_, _, _, _)
ReSubIndent(s, p, tag, indent) ==
    IF p > Len(s) THEN <<>>
    ELSE LET q == SkipWhile(s, p, Whitespace) IN
         IF (p = 1 \/ s[p - 1] = "\n") /\ q <= Len(s) /\ s[q] = tag
         THEN indent \o <<tag>> \o ReSubIndent(s, q + 1, tag, indent)
         ELSE <<s[p]>> \o ReSubIndent(s, p + 1, tag, indent)

\* the three table substitutions, in the order of the code
StandardizeTableIndent(s) ==
    LET tr == ReSubIndent(s, 1, "<tr", <<" ", " ">>)
        td == ReSubIndent(tr, 1, "<td", <<" ", " ", " ", " ">>)
    IN  ReSubIndent(td, 1, "<th", <<" ", " ", " ", " ">>)

\* str.splitlines() from position p on, `cur` being the line under way: no
\* empty last line after a final line break
RECURSIVE SplitLinesFrom(_, _, _)
SplitLinesFrom(s, p, cur) ==
    IF p > Len(s) THEN (IF cur = <<>> THEN <<>> ELSE <<cur>>)
    ELSE IF s[p] = "\r" /\ p + 1 <= Len(s) /\ s[p + 1] = "\n"
    THEN <<cur>> \o SplitLinesFrom(s, p + 2, <<>>)
    ELSE IF s[p] \in LineBreak
    THEN <<cur>> \o SplitLinesFrom(s, p + 1, <<>>)
    ELSE SplitLinesFrom(s, p + 1, Append(cur, s[p]))

SplitLines(s) == SplitLinesFrom(s, 1, <<>>)

\* str.rstrip()
RECURSIVE RStrip(_)
RStrip(line) ==
    IF line # <<>> /\ line[Len(line)] \in Whitespace
    THEN RStrip(SubSeq(line, 1, Len(line) - 1))
    ELSE line

\* sep.join(pieces)
RECURSIVE Join(_, _)
Join(sep, pieces) ==
    IF pieces = <<>> THEN <<>>
    ELSE IF Len(pieces) = 1 THEN pieces[1]
    ELSE pieces[1] \o sep \o Join(sep, Tail(pieces))

\* "\n".join(line.rstrip() for line in text.splitlines())
StripTrailingWhitespace(s) ==
    LET lines == SplitLines(s) IN
    Join(<<"\n">>, [k \in 1..Len(lines) |-> RStrip(lines[k])])

\* f"<!-- PDF page {page_num + 1} -->": the page marker comment, one token
PageMarker(num) == "<!-- PDF page " \o ToString(num + 1) \o " -->"

\* the text transformations of process_model_response, before the marker
CleanMarkdown(markdown_text) ==
    StripTrailingWhitespace(StandardizeTableIndent(StripCloser(StripOpener(markdown_text))))

\* A response of the chat completion call: its choices, each holding the
\* message: None or an object, with or without a content attribute, the
\* content a string or None
Message(text) == [is_none |-> FALSE, has_content |-> TRUE, is_str |-> TRUE, content |-> text]
NoneMessage == [is_none |-> TRUE, has_content |-> FALSE, is_str |-> FALSE, content |-> <<>>]
NoContentMessage == [is_none |-> FALSE, has_content |-> FALSE, is_str |-> FALSE, content |-> <<>>]
NoneContentMessage == [is_none |-> FALSE, has_content |-> TRUE, is_str |-> FALSE, content |-> <<>>]
Response(text) == [choices |-> <<Message(text)>>]

\* process_model_response(response, page_num, total_pages), `num` being its
\* page_num: [raised |-> TRUE]
\* for the two ValueErrors and for the TypeError re.sub raises on a content
\* that is no string, else the fragment text
process_model_response(response, num, total_pages) ==
    IF response.choices = <<>>
    THEN [raised |-> TRUE, error |-> "ValueError", value |-> <<>>]
    ELSE LET assistant_message == response.choices[1] IN
         IF assistant_message.is_none \/ ~assistant_message.has_content
         THEN [raised |-> TRUE, error |-> "ValueError", value |-> <<>>]
         ELSE IF ~assistant_message.is_str
         THEN [raised |-> TRUE, error |-> "TypeError", value |-> <<>>]
         ELSE [raised |-> FALSE, error |-> "",
               value  |-> <<PageMarker(num), "\n">>
                          \o CleanMarkdown(assistant_message.content)]

---------------------------------------------------------------------------
(* Paths and files *)

\* the paths the program is run on: a.pdf, a.pdf.pdf, d.pdf/a.pdf and a.txt
InputPaths ==
    {<<"a", ".pdf">>, <<"a", ".pdf", ".pdf">>, <<"d", ".pdf", "/", "a", ".pdf">>,
     <<"a", ".txt">>}

\* the directories that exist: the working directory and d.pdf
Directories == {<<>>, <<"d", ".pdf">>}

\* str.endswith(suffix)
EndsWith(path, suffix) == path # <<>> /\ path[Len(path)] = suffix

\* str.replace(old, new): every occurrence is replaced
Replace(path, old, new) ==
    [k \in 1..Len(path) |-> IF path[k] = old THEN new ELSE path[k]]

\* the position of the last "/" of the path, 0 when it has none
LastSlash(path) ==
    IF \E k \in 1..Len(path) : path[k] = "/"
    THEN CHOOSE k \in 1..Len(path) :
             path[k] = "/" /\ \A j \in (k + 1)..Len(path) : path[j] # "/"
    ELSE 0

\* os.path.dirname and os.path.basename
DirName(path) == SubSeq(path, 1, LastSlash(path) - 1)
BaseName(path) == SubSeq(path, LastSlash(path) + 1, Len(path))

\* os.path.splitext(name)[0]: the name without its last extension
SplitExtRoot(name) ==
    IF Len(name) > 1 /\ name[Len(name)] \in {".pdf", ".md", ".txt"}
    THEN SubSeq(name, 1, Len(name) - 1)
    ELSE name

\* os.path.exists(path)
Exists(path) == path \in DOMAIN fs \/ path \in Directories

\* open(path, "w") raises FileNotFoundError when the directory is missing
CanOpenForWriting(path) == DirName(path) \in Directories /\ path \notin Directories

\* the files after a write of the whole content to path
WriteFile(files, path, content) ==
    [p \in DOMAIN files \cup {path} |-> IF p = path THEN content ELSE files[p]]

\* the files after os.remove(path)
RemoveFile(files, path) == [p \in DOMAIN files \ {path} |-> files[p]]

\* validate_inputs(pdf_path): the exception it raises, or "ok"
validate_inputs_without_key_check(path) ==
    IF ~EndsWith(path, ".pdf") THEN "ValueError"
    ELSE IF ~Exists(path) THEN "FileNotFoundError"
    ELSE "ok"

validate_inputs(path) ==
    IF ~EndsWith(path, ".pdf") THEN "ValueError"
    ELSE IF ~Exists(path) THEN "FileNotFoundError"
    ELSE IF ~api_key THEN "EnvironmentError"
    ELSE "ok"

\* get_output_path(pdf_path)
get_output_path(path) ==
    LET output_path == Replace(path, ".pdf", ".md") IN
    IF Exists(output_path)
    THEN Replace(path, ".pdf", "_converted.md")
    ELSE output_path

\* metadata_comment(): the trailer, with the time of the call
metadata_comment ==
    <<"\n", "\n", "<!-- Converted from PDF using:", "\n",
      "Command: python pdfOCR2md.py", "\n",
      "Date: " \o ToString(clock), "\n",
      "Source", "\n", "Platform", "\n", "Python", "\n",
      "Model: gpt-4o", "\n", "-->">>

\* temp_image_path = f"{base_name}_page_{page_num + 1}.jpeg", in the working
\* directory
TempImagePath(path, n) ==
    SplitExtRoot(BaseName(path)) \o <<"_page_" \o ToString(n + 1) \o ".jpeg">>

\* the JPEG image.save writes for images[n]
ImageBytes(n) == <<"JPEG of page " \o ToString(n + 1)>>

---------------------------------------------------------------------------
(* pdf_to_markdown and the __main__ block *)

\* the completions the model service answers with
Completions == {<<FENCE, "markdown", "\n", "<tr", "\n", " ", "<td", " ", "\n", FENCE>>}

\* what client.chat.completions.create does: it raises, or returns a response
\* with no choice, with a choice whose message is None, has no content or a
\* None content, or with a completion
ApiOutcomes ==
    {[raised |-> TRUE, response |-> [choices |-> <<>>]]}
    \cup {[raised |-> FALSE, response |-> r] : r \in
            {[choices |-> <<>>], [choices |-> <<NoneMessage>>],
             [choices |-> <<NoContentMessage>>], [choices |-> <<NoneContentMessage>>]}
            \cup {Response(t) : t \in Completions}}

\* except Exception as e: the clause catches every exception class the try
\* body raises (the API client's errors, ValueError, TypeError)
CaughtValueErrorOnly(error) == error = "ValueError"

Caught(error) == error \in {"APIError", "ValueError", "TypeError"}

\* previous_page_markdown after the try statement of a page: assigned on
\* success only
NextContextBlankOnFailure(r, context) == IF r.raised THEN <<>> ELSE r.value

NextContext(r, context) == IF r.raised THEN context ELSE r.value

\* markdown_pieces after the try statement of a page
NextPiecesAlsoOnFailure(r, pieces) == Append(pieces, r.value)

NextPieces(r, pieces) == IF r.raised THEN pieces ELSE Append(pieces, r.value)

\* the finally clause: if os.path.exists(temp_image_path): os.remove(...)
CleanupSkipped(files, path) == files

Cleanup(files, path) == IF path \in DOMAIN files THEN RemoveFile(files, path) ELSE files

\* return "\n".join(markdown_pieces)
JoinPiecesBlankLine(pieces) == Join(<<"\n", "\n">>, pieces)

JoinPieces(pieces) == Join(<<"\n">>, pieces)

\* the files a run may find beside its input: earlier outputs under the two
\* names get_output_path knows, and a file under the name of the first
\* page's temporary image
PreExisting(path) ==
    {p \in {Replace(path, ".pdf", ".md"), Replace(path, ".pdf", "_converted.md"),
            TempImagePath(path, 0)} :
        p # path /\ CanOpenForWriting(p)}

Init ==
    /\ raw = <<>> /\ page = 0 /\ fragment = <<>> /\ refragment = <<>>
    /\ npc = "unused"
    /\ pdf_path \in InputPaths
    /\ \E present \in BOOLEAN :
       \E pre \in (IF present /\ EndsWith(pdf_path, ".pdf")
                   THEN SUBSET PreExisting(pdf_path) ELSE {{}}) :
           fs = [p \in (IF present THEN {pdf_path} ELSE {}) \cup pre |->
                    IF p = pdf_path THEN <<"%PDF">> ELSE <<"old">>]
    /\ fs0 = fs
    /\ pdf_readable \in BOOLEAN
    /\ pdf_pages \in (IF pdf_readable THEN 0..MaxPages ELSE {0})
    /\ api_key = TRUE
    /\ clock = 0
    /\ run = 0
    /\ pc = "idle"
    /\ status = "none"
    /\ driver = "Idle"
    /\ images = 0
    /\ page_num = 0
    /\ markdown_pieces = <<>>
    /\ previous_page_markdown = <<>>
    /\ result = <<>>
    /\ attempts = <<>>
    /\ artifacts = <<>>
    /\ q_files = <<>>
    /\ q_today = 0
    /\ q_run = 0
    /\ q_pc = "unused"
    /\ q_status = "none"
    /\ q_models = <<>>
    /\ q_index = 0
    /\ q_queried = <<>>
    /\ q_saved = <<>>

\* python pdfOCR2md.py <pdf_path>: a new process, at least a second after the
\* last one started, with the credential set or not
StartRun ==
    /\ pc = "idle"
    /\ run < MaxRuns
    /\ run' = run + 1
    /\ api_key' \in BOOLEAN
    /\ clock' = clock + 1
    /\ pc' = "validate"
    /\ status' = "running"
    /\ driver' = "Idle"
    /\ images' = 0
    /\ page_num' = 0
    /\ markdown_pieces' = <<>>
    /\ previous_page_markdown' = <<>>
    /\ result' = <<>>
    /\ attempts' = <<>>
    /\ UNCHANGED <<nvars, qvars, pdf_path, pdf_readable, pdf_pages, fs0, fs, artifacts>>

\* validate_inputs(pdf_path); what it raises is caught and printed by main
Validate ==
    /\ pc = "validate"
    /\ IF validate_inputs(pdf_path) = "ok"
       THEN pc' = "rasterize" /\ UNCHANGED status
       ELSE pc' = "idle" /\ status' = validate_inputs(pdf_path)
    /\ UNCHANGED <<nvars, qvars, pdf_path, pdf_readable, pdf_pages, fs0, fs, api_key, clock, run,
                   driver, images, page_num, markdown_pieces,
                   previous_page_markdown, result, attempts, artifacts>>

\* images = convert_from_path(pdf_path, ...); markdown_pieces = [];
\* previous_page_markdown = ""
Rasterize ==
    /\ pc = "rasterize"
    /\ IF pdf_readable
       THEN /\ images' = pdf_pages
            /\ pc' = "loop"
            /\ UNCHANGED status
       ELSE /\ pc' = "idle"
            /\ status' = "RasterizationError"
            /\ UNCHANGED images
    /\ markdown_pieces' = <<>>
    /\ previous_page_markdown' = <<>>
    /\ UNCHANGED <<nvars, qvars, pdf_path, pdf_readable, pdf_pages, fs0, fs, api_key, clock, run,
                   driver, page_num, result, attempts, artifacts>>

\* the head of the loop with a page left: image.save(temp_image_path, "JPEG")
SaveTempImage ==
    /\ pc = "loop"
    /\ page_num < images
    /\ fs' = WriteFile(fs, TempImagePath(pdf_path, page_num), ImageBytes(page_num))
    /\ driver' = "Converting"
    /\ pc' = "try"
    /\ UNCHANGED <<nvars, qvars, pdf_path, pdf_readable, pdf_pages, fs0, api_key, clock, run,
                   status, images, page_num, markdown_pieces,
                   previous_page_markdown, result, attempts, artifacts>>

\* the try statement of a page: the request carrying previous_page_markdown,
\* process_model_response, and the except clause; an exception the clause
\* does not catch leaves the loop for the handlers of main
TryPage ==
    /\ pc = "try"
    /\ \E o \in ApiOutcomes :
       LET r == IF o.raised THEN [raised |-> TRUE, error |-> "APIError", value |-> <<>>]
                ELSE process_model_response(o.response, page_num, images)
       IN  /\ markdown_pieces' = NextPieces(r, markdown_pieces)
           /\ previous_page_markdown' = NextContext(r, previous_page_markdown)
           /\ attempts' = Append(attempts,
                  [page_num |-> page_num, context |-> previous_page_markdown,
                   ok |-> ~r.raised, fragment |-> r.value])
           /\ status' = IF r.raised /\ ~Caught(r.error) THEN r.error ELSE status
    /\ pc' = "finally"
    /\ UNCHANGED <<nvars, qvars, pdf_path, pdf_readable, pdf_pages, fs0, fs, api_key, clock, run,
                   driver, images, page_num, result, artifacts>>

\* the finally clause of a page, then the loop goes to the next page, or the
\* exception that was not caught goes on to main
Finally ==
    /\ pc = "finally"
    /\ fs' = Cleanup(fs, TempImagePath(pdf_path, page_num))
    /\ page_num' = page_num + 1
    /\ pc' = IF status = "running" THEN "loop" ELSE "idle"
    /\ UNCHANGED <<nvars, qvars, pdf_path, pdf_readable, pdf_pages, fs0, api_key, clock, run,
                   status, driver, images, markdown_pieces,
                   previous_page_markdown, result, attempts, artifacts>>

\* the head of the loop with no page left: return "\n".join(markdown_pieces)
ReturnResult ==
    /\ pc = "loop"
    /\ page_num >= images
    /\ result' = JoinPieces(markdown_pieces)
    /\ driver' = "Done"
    /\ pc' = "write"
    /\ UNCHANGED <<nvars, qvars, pdf_path, pdf_readable, pdf_pages, fs0, fs, api_key, clock, run,
                   status, images, page_num, markdown_pieces,
                   previous_page_markdown, attempts, artifacts>>

\* output_path = get_output_path(pdf_path); open(output_path, "w");
\* f.write(result); f.write(metadata_comment())
WriteOutput ==
    /\ pc = "write"
    /\ LET output_path == get_output_path(pdf_path)
           content == result \o metadata_comment
       IN  IF CanOpenForWriting(output_path)
           THEN /\ fs' = WriteFile(fs, output_path, content)
                /\ artifacts' = Append(artifacts,
                       [run |-> run, path |-> output_path, content |-> content])
                /\ status' = "complete"
           ELSE /\ status' = "FileNotFoundError"
                /\ UNCHANGED <<fs, artifacts>>
    /\ pc' = "idle"
    /\ UNCHANGED <<nvars, qvars, pdf_path, pdf_readable, pdf_pages, fs0, api_key, clock, run,
                   driver, images, page_num, markdown_pieces,
                   previous_page_markdown, result, attempts>>

Next ==
    \/ StartRun
    \/ Validate
    \/ Rasterize
    \/ SaveTempImage
    \/ TryPage
    \/ Finally
    \/ ReturnResult
    \/ WriteOutput

Spec == Init /\ [][Next]_vars

---------------------------------------------------------------------------
(* Claims about the pipeline *)

\* the 1-based indices of the pages of the current run that converted
OkPages == {k \in 1..Len(attempts) : attempts[k].ok}

\* the j-th page that converted
NthOk(j) == CHOOSE k \in OkPages : Cardinality({i \in OkPages : i <= k}) = j

\* the fragments of the pages that converted, in page order
OkFragments == [j \in 1..Cardinality(OkPages) |-> attempts[NthOk(j)].fragment]

\* the fragment of the closest page before page k that converted, or ""
NearestGood(k) ==
    LET good == {j \in OkPages : j < k} IN
    IF good = {} THEN <<>>
    ELSE attempts[CHOOSE j \in good : \A i \in good : i <= j].fragment

\* the marker comment of the page with 1-based index k
MarkerOfPage(k) == "<!-- PDF page " \o ToString(k) \o " -->"

\* the page markers of a text, in their order
MarkersIn(text) ==
    SelectSeq(text, LAMBDA t : t \in {MarkerOfPage(k) : k \in 1..(MaxPages + 1)})

\* the record of what the current run wrote
WrittenByRun == {k \in 1..Len(artifacts) : artifacts[k].run = run}

\* the artifact is on disk as it was written
Intact(a) == a.path \in DOMAIN fs /\ fs[a.path] = a.content

\* the temporary page images on disk (by 0-based page number)
TempImages ==
    {n \in 0..MaxPages :
        /\ TempImagePath(pdf_path, n) \in DOMAIN fs
        /\ fs[TempImagePath(pdf_path, n)] = ImageBytes(n)}

\* C1: the context of every page's request is the fragment of the closest
\* earlier page that converted ("" if none), and so is the context held at
\* the entry of the next page: a failed page neither changes nor blanks it
C1_ContextPropagation ==
    /\ \A k \in 1..Len(attempts) : attempts[k].context = NearestGood(k)
    /\ pc \in {"loop", "try"} => previous_page_markdown = NearestGood(Len(attempts) + 1)

\* C1's case: page 1 converted, page 2 failed, page 3 was sent page 1's fragment
C1_Witness ==
    /\ Len(attempts) >= 3
    /\ attempts[1].ok /\ ~attempts[2].ok
    /\ attempts[3].context = attempts[1].fragment
    /\ attempts[3].context # <<>>

\* C2: the accumulated fragments are the fragments of the pages that
\* converted so far, each tagged with the 1-based index of its page, in
\* increasing page order, and the written document holds their markers in
\* that order
C2_FragmentsInPageOrder ==
    /\ Len(markdown_pieces) = Cardinality(OkPages)
    /\ \A j \in 1..Len(markdown_pieces) :
          /\ markdown_pieces[j] = attempts[NthOk(j)].fragment
          /\ markdown_pieces[j][1] = MarkerOfPage(NthOk(j))
    /\ \A j \in 1..Len(attempts) : attempts[j].page_num = j - 1
    /\ \A k \in WrittenByRun :
          MarkersIn(artifacts[k].content) =
              [j \in 1..Cardinality(OkPages) |-> MarkerOfPage(NthOk(j))]

\* C2's case: a document written after page 1 failed and pages 2 and 3 converted
C2_Witness ==
    /\ status = "complete"
    /\ Len(attempts) = 3
    /\ OkPages = {2, 3}
    /\ Len(markdown_pieces) = 2

\* the run in progress (or just ended) cannot pass validate_inputs and
\* convert_from_path
SetupFails ==
    \/ ~EndsWith(pdf_path, ".pdf")
    \/ pdf_path \notin DOMAIN fs
    \/ ~api_key
    \/ ~pdf_readable

\* C3: a run whose setup and rasterization pass has, when it ends, attempted
\* every page, reached Done and written its output artifact, whatever pages
\* failed
C3_FailOpen ==
    (pc = "idle" /\ run >= 1 /\ ~SetupFails) =>
        /\ driver = "Done"
        /\ Len(attempts) = images
        /\ \E k \in WrittenByRun : Intact(artifacts[k])

\* C4: with a file at the default output path get_output_path returns another
\* path and the file found there stays as it was; and after two runs on the
\* same input the first run's output is still there as written
C4_CollisionAvoided ==
    LET default == Replace(pdf_path, ".pdf", ".md") IN
    /\ (EndsWith(pdf_path, ".pdf") /\ Exists(default)) =>
           get_output_path(pdf_path) # default
    /\ default \in DOMAIN fs0 => default \in DOMAIN fs /\ fs[default] = fs0[default]
    /\ (run <= 2 /\ artifacts # <<>>) => Intact(artifacts[1])

\* C5: after any number of runs every artifact an earlier run wrote is still
\* there as written
C5_NoArtifactOverwritten ==
    \A k \in 1..Len(artifacts) : Intact(artifacts[k])

\* C6: a run whose setup or rasterization fails makes no request, produces no
\* fragment, saves no page image, writes no artifact, and ends with the error
C6_FatalAbort ==
    (run >= 1 /\ SetupFails) =>
        /\ attempts = <<>>
        /\ markdown_pieces = <<>>
        /\ driver = "Idle"
        /\ TempImages = {}
        /\ WrittenByRun = {}
        /\ pc = "idle" => status \in {"ValueError", "FileNotFoundError",
                                      "EnvironmentError", "RasterizationError"}

\* C6's case: a run wrote its artifact, the next run found no credential and
\* ended with nothing written
C6_Witness ==
    /\ pc = "idle"
    /\ run = 2
    /\ status = "EnvironmentError"
    /\ Len(artifacts) = 1

C8_TempImageScoped ==
    /\ Cardinality(TempImages) <= 1
    /\ pc \in {"try", "finally"} => TempImages = {page_num}
    /\ pc \notin {"try", "finally"} => TempImages = {}

\* C8's case: the head of the loop after a page that converted and a page
\* that raised
C8_Witness ==
    /\ pc = "loop"
    /\ page_num = 2
    /\ page_num < images
    /\ attempts[1].ok /\ ~attempts[2].ok
    /\ TempImages = {}

---------------------------------------------------------------------------
(* query.py *)

\* yaml.safe_load of the models file: the ids, in the order of the file
\* (a/m, b/m, n)
YamlModels == << <<"a", "/", "m">>, <<"b", "/", "m">>, <<"n">> >>

\* model_id.split("/")[-1]
LastPart(model_id) == SubSeq(model_id, LastSlash(model_id) + 1, Len(model_id))

\* filepath = output_dir / date.today().isoformat() / (last part + ".json")
ResultPath(model_id) ==
    <<"Results", "/", "day " \o ToString(q_today), "/">> \o LastPart(model_id) \o <<".json">>

\* what query_model returns
QueryResult ==
    [response |-> "text", finish_reason |-> "stop", error |-> "", usage |-> "tokens"]

\* the result main saves when query_model (or the first save_result) raised
ErrorResult ==
    [response |-> "None", finish_reason |-> "error", error |-> "str(e)", usage |-> "None"]

\* record = {"model": ..., "date": ..., "prompt": ..., **result}
ResultRecord(model_id, res) ==
    [model |-> model_id, date |-> q_today, prompt |-> "prompt",
     response |-> res.response, finish_reason |-> res.finish_reason,
     error |-> res.error, usage |-> res.usage]

\* models after the --model filter: [m for m in models if m["id"] == args.model]
FilterModels(models, id) == SelectSeq(models, LAMBDA m : m = id)

QueryInit ==
    /\ raw = <<>> /\ page = 0 /\ fragment = <<>> /\ refragment = <<>>
    /\ npc = "unused"
    /\ pdf_path = <<"a", ".pdf">>
    /\ pdf_readable = TRUE
    /\ pdf_pages = 0
    /\ fs = <<>>
    /\ fs0 = <<>>
    /\ api_key = TRUE
    /\ clock = 0
    /\ run = 0
    /\ pc = "unused"
    /\ status = "none"
    /\ driver = "Idle"
    /\ images = 0
    /\ page_num = 0
    /\ markdown_pieces = <<>>
    /\ previous_page_markdown = <<>>
    /\ result = <<>>
    /\ attempts = <<>>
    /\ artifacts = <<>>
    /\ q_files = <<>>
    /\ q_today = 0
    /\ q_run = 0
    /\ q_pc = "idle"
    /\ q_status = "none"
    /\ q_models = <<>>
    /\ q_index = 0
    /\ q_queried = <<>>
    /\ q_saved = <<>>

\* main up to the loop, the same day as the last run or the day after: the
\* models file is loaded, OPENROUTER_API_KEY is set, no --model is given
MainAll ==
    /\ q_pc = "idle"
    /\ q_run < MaxRuns
    /\ q_run' = q_run + 1
    /\ q_today' \in {q_today, q_today + 1}
    /\ q_models' = YamlModels
    /\ q_index' = 1
    /\ q_queried' = <<>>
    /\ q_pc' = "loop"
    /\ q_status' = "running"
    /\ UNCHANGED <<nvars, dvars, q_files, q_saved>>

\* main up to the loop with --model: the list is filtered, SystemExit when
\* nothing is left
MainOne ==
    /\ q_pc = "idle"
    /\ q_run < MaxRuns
    /\ q_run' = q_run + 1
    /\ q_today' \in {q_today, q_today + 1}
    /\ \E id \in {YamlModels[k] : k \in 1..Len(YamlModels)} \cup {<<"x">>} :
          IF FilterModels(YamlModels, id) = <<>>
          THEN /\ q_status' = "SystemExit"
               /\ q_pc' = "idle"
               /\ q_models' = <<>>
          ELSE /\ q_status' = "running"
               /\ q_pc' = "loop"
               /\ q_models' = FilterModels(YamlModels, id)
    /\ q_index' = 1
    /\ q_queried' = <<>>
    /\ UNCHANGED <<nvars, dvars, q_files, q_saved>>

\* main without OPENROUTER_API_KEY: SystemExit before the loop
MainNoKey ==
    /\ q_pc = "idle"
    /\ q_run < MaxRuns
    /\ q_run' = q_run + 1
    /\ q_status' = "SystemExit"
    /\ q_models' = <<>>
    /\ q_index' = 1
    /\ q_queried' = <<>>
    /\ UNCHANGED <<nvars, dvars, q_files, q_today, q_pc, q_saved>>

\* one pass of the loop: query_model returns or raises, and save_result
\* writes the record with open(filepath, "w")
QueryModel ==
    /\ q_pc = "loop"
    /\ q_index <= Len(q_models)
    /\ \E res \in {QueryResult, ErrorResult} :
       LET model_id == q_models[q_index]
           filepath == ResultPath(model_id)
           record   == ResultRecord(model_id, res)
       IN  /\ q_files' = WriteFile(q_files, filepath, record)
           /\ q_saved' = Append(q_saved, [path |-> filepath, record |-> record])
           /\ q_queried' = Append(q_queried, model_id)
    /\ q_index' = q_index + 1
    /\ UNCHANGED <<nvars, dvars, q_today, q_run, q_pc, q_status, q_models>>

\* the loop is over: main returns
MainReturn ==
    /\ q_pc = "loop"
    /\ q_index > Len(q_models)
    /\ q_pc' = "idle"
    /\ q_status' = "finished"
    /\ UNCHANGED <<nvars, dvars, q_files, q_today, q_run, q_models, q_index,
                   q_queried, q_saved>>

QueryNext == MainAll \/ MainOne \/ MainNoKey \/ QueryModel \/ MainReturn

QuerySpec == QueryInit /\ [][QueryNext]_vars

\* C12: save_result is append-only: every record a save_result call wrote
\* is still in its file as written
C12_AppendOnly ==
    \A k \in 1..Len(q_saved) :
        /\ q_saved[k].path \in DOMAIN q_files
        /\ q_files[q_saved[k].path] = q_saved[k].record

\* C17: when main has gone through the loop, every selected model was
\* queried once, in list order, and has a result file whose model field is
\* its id, a success record or an error record
C17_EveryModelSaved ==
    q_status = "finished" =>
        /\ q_queried = q_models
        /\ \A k \in 1..Len(q_models) :
              \E f \in DOMAIN q_files :
                  /\ q_files[f].model = q_models[k]
                  /\ q_files[f].finish_reason \in {"stop", "error"}

---------------------------------------------------------------------------
(* The normalizer on its own: every raw text of up to MaxLen tokens *)

RawTexts == SeqsUpTo(Alphabet, MaxLen)

NormInit ==
    /\ raw \in RawTexts
    /\ page \in 0..MaxPageNum
    /\ fragment = <<>>
    /\ refragment = <<>>
    /\ npc = "input"
    /\ pdf_path = <<"a", ".pdf">>
    /\ pdf_readable = TRUE
    /\ pdf_pages = 0
    /\ fs = <<>>
    /\ fs0 = <<>>
    /\ api_key = TRUE
    /\ clock = 0
    /\ run = 0
    /\ pc = "unused"
    /\ status = "none"
    /\ driver = "Idle"
    /\ images = 0
    /\ page_num = 0
    /\ markdown_pieces = <<>>
    /\ previous_page_markdown = <<>>
    /\ result = <<>>
    /\ attempts = <<>>
    /\ artifacts = <<>>
    /\ q_files = <<>>
    /\ q_today = 0
    /\ q_run = 0
    /\ q_pc = "unused"
    /\ q_status = "none"
    /\ q_models = <<>>
    /\ q_index = 0
    /\ q_queried = <<>>
    /\ q_saved = <<>>

\* fragment = process_model_response(response, page, n)
Normalize ==
    /\ npc = "input"
    /\ fragment' = process_model_response(Response(raw), page, MaxPageNum + 1).value
    /\ npc' = "normalized"
    /\ UNCHANGED <<raw, page, refragment, dvars, qvars>>

\* the normalizer applied to its own value, with the same page
Renormalize ==
    /\ npc = "normalized"
    /\ refragment' = process_model_response(Response(fragment), page, MaxPageNum + 1).value
    /\ npc' = "renormalized"
    /\ UNCHANGED <<raw, page, fragment, dvars, qvars>>

NormNext == Normalize \/ Renormalize

NormSpec == NormInit /\ [][NormNext]_vars

---------------------------------------------------------------------------
(* Claims about the normalizer *)

\* a fragment without its leading page marker line (the marker and the
\* newline after it, when there is one)
StripMarker(f, num) ==
    IF f # <<>> /\ f[1] = PageMarker(num)
    THEN IF Len(f) >= 2 /\ f[2] = "\n" THEN SubSeq(f, 3, Len(f)) ELSE SubSeq(f, 2, Len(f))
    ELSE f

\* the number of leading whitespace tokens of a line
LeadingWhitespace(line) == SkipWhile(line, 1, Whitespace) - 1

\* the line begins, after optional whitespace, with the tag opener
BeginsWith(line, tag) ==
    LeadingWhitespace(line) < Len(line) /\ line[LeadingWhitespace(line) + 1] = tag

\* the line's leading whitespace is exactly n spaces
IndentedBy(line, n) ==
    LeadingWhitespace(line) = n /\ \A k \in 1..n : line[k] = " "

\* C9: normalization is idempotent on its body: the body of
\* normalize(normalize(x, i), i), the duplicated marker left aside, is the
\* body of normalize(x, i)
C9_IdempotentBody ==
    npc = "renormalized" =>
        StripMarker(StripMarker(refragment, page), page) = StripMarker(fragment, page)

\* C10: in the normalized fragment every line beginning with <tr has exactly
\* two leading spaces and every line beginning with <td or <th exactly four
C10_TableIndent ==
    npc = "normalized" =>
        \A k \in 1..Len(SplitLines(fragment)) :
            LET line == SplitLines(fragment)[k] IN
            /\ BeginsWith(line, "<tr") => IndentedBy(line, 2)
            /\ BeginsWith(line, "<td") => IndentedBy(line, 4)
            /\ BeginsWith(line, "<th") => IndentedBy(line, 4)

\* the length of the opener line the text starts with (the fence, an optional
\* tag, the newline), 0 when it starts with none
OpenerLen(t) ==
    IF Len(t) >= 2 /\ t[1] = FENCE /\ t[2] = "\n" THEN 2
    ELSE IF Len(t) >= 3 /\ t[1] = FENCE /\ t[2] \in {"markdown", "html"} /\ t[3] = "\n"
    THEN 3
    ELSE 0

\* the text is an opener line, the lines of a text, and a closer line
Wrapped(t) ==
    /\ OpenerLen(t) > 0
    /\ Len(t) > OpenerLen(t)
    /\ t[Len(t)] = FENCE
    /\ t[Len(t) - 1] = "\n"

\* the text a wrapped text wraps: what stands between the opener line and the
\* newline that ends its last line
Inner(t) == SubSeq(t, OpenerLen(t) + 1, Len(t) - 2)

\* a text the other steps of the normalization leave alone: letters and
\* newlines, not ending with a newline
Plain(t) ==
    /\ \A k \in 1..Len(t) : t[k] \in {"a", "\n"}
    /\ t = <<>> \/ t[Len(t)] = "a"

\* C11: a completion that wraps a text T in a fence (an opener line, T's
\* lines, a closer line) normalizes to the body T, with no fence left
C11_FenceStripped ==
    (npc = "normalized" /\ Wrapped(raw) /\ Plain(Inner(raw))) =>
        StripMarker(fragment, page) = Inner(raw)

---------------------------------------------------------------------------
(* Further claims about the pipeline *)

\* C13: no error of a page leaves the loop: the pages are attempted once
\* each in increasing order, a run that attempted a page goes on to the end
\* of the loop and to the writing of the artifact, having attempted every
\* page, and a page that raised adds no fragment
C13_PageErrorsContained ==
    /\ \A k \in 1..Len(attempts) : attempts[k].page_num = k - 1
    /\ Len(attempts) > 0 =>
          /\ pc \in {"loop", "try", "finally", "write"} => status = "running"
          /\ pc = "idle" => /\ status \in {"complete", "FileNotFoundError"}
                            /\ Len(attempts) = images
    /\ driver = "Done" => Len(attempts) = images
    /\ pc \in {"loop", "write"} => Len(markdown_pieces) = Cardinality(OkPages)

\* C13's case: a run that ended after three pages, the first two raised and
\* the third converted
C13_Witness ==
    /\ pc = "idle"
    /\ status = "complete"
    /\ images = 3
    /\ Len(attempts) = 3
    /\ ~attempts[1].ok /\ ~attempts[2].ok /\ attempts[3].ok
    /\ Len(markdown_pieces) = 1

\* the path without its last component
Front(path) == SubSeq(path, 1, Len(path) - 1)

\* C16: for a path that ends in .pdf the output path is the path with its
\* final .pdf replaced by .md or by _converted.md, all before it unchanged:
\* so the path get_output_path returns, and the path of every artifact
C16_OnlyFinalExtension ==
    EndsWith(pdf_path, ".pdf") =>
        LET expected == {Front(pdf_path) \o <<".md">>,
                         Front(pdf_path) \o <<"_converted.md">>}
        IN  /\ pc = "write" => get_output_path(pdf_path) \in expected
            /\ \A k \in 1..Len(artifacts) : artifacts[k].path \in expected

\* C18: every file that was there before the first run, the output paths of
\* the runs apart, is still there with its content
C18_NoForeignFileTouched ==
    \A p \in DOMAIN fs0 :
        p \notin {artifacts[k].path : k \in 1..Len(artifacts)} =>
            p \in DOMAIN fs /\ fs[p] = fs0[p]

---------------------------------------------------------------------------
(* Further claims about the normalizer *)

\* the pieces of a text between the occurrences of a separator
RECURSIVE SplitOn(_, _)
SplitOn(s, sep) ==
    IF \E k \in 1..Len(s) : s[k] = sep
    THEN LET k == CHOOSE i \in 1..Len(s) : s[i] = sep /\ \A j \in 1..(i - 1) : s[j] # sep
         IN  <<SubSeq(s, 1, k - 1)>> \o SplitOn(SubSeq(s, k + 1, Len(s)), sep)
    ELSE <<s>>

\* the lines of the raw completion and the lines of the body of the fragment
RawLines == SplitLines(raw)
BodyLines == SplitOn(StripMarker(fragment, page), "\n")

\* the raw completion has no fence, so every line of it is a line of content
FenceFree == \A k \in 1..Len(raw) : raw[k] # FENCE

\* the line is empty or whitespace only
IsBlank(line) == LeadingWhitespace(line) = Len(line)

\* the line begins, after optional whitespace, with a <tr, <td or <th tag:
\* <thead> is no <th tag
BeginsWithTableTag(line) ==
    \/ BeginsWith(line, "<tr")
    \/ BeginsWith(line, "<td")
    \/ /\ BeginsWith(line, "<th")
       /\ ~(LeadingWhitespace(line) + 2 <= Len(line)
            /\ line[LeadingWhitespace(line) + 2] = "ead>")

\* the leading whitespace of a line
Indentation(line) == SubSeq(line, 1, LeadingWhitespace(line))

\* C14: a line of the completion that does not begin with a <tr, <td or <th
\* tag has, in the body, the leading whitespace it had (the lines taken by
\* position, for a completion whose body has as many lines as it has itself)
C14_IndentationKept ==
    (npc = "normalized" /\ FenceFree /\ Len(BodyLines) = Len(RawLines)) =>
        \A k \in 1..Len(RawLines) :
            (~IsBlank(RawLines[k]) /\ ~BeginsWithTableTag(RawLines[k])) =>
                Indentation(BodyLines[k]) = Indentation(RawLines[k])

\* C15: the body has as many lines as the completion, and every blank line of
\* the completion is a blank line of the body at the same position
C15_BlankLinesKept ==
    (npc = "normalized" /\ FenceFree /\ raw # <<>>) =>
        /\ Len(BodyLines) = Len(RawLines)
        /\ \A k \in 1..Len(RawLines) : IsBlank(RawLines[k]) => IsBlank(BodyLines[k])

=============================================================================
